---- MODULE Spec2Model ----
(***************************************************************************)
(* Model of taipy_timesheet.py: the pay-period table and its lookup, the   *)
(* shift store (one SQLite table) with the UI handlers that drive it, and  *)
(* the pay calculator.                                                     *)
(*                                                                         *)
(* Dates are <<year, month, day>> triples (the ISO text the program        *)
(* stores and parses); date arithmetic goes through day ordinals, as       *)
(* datetime.date does.  Clock times are sequences of characters, parsed    *)
(* the way strptime("%H:%M") parses them.  Money and hours are exact       *)
(* rationals <<numerator, denominator>>.                                   *)
(***************************************************************************)
EXTENDS Integers, Sequences, FiniteSets, TLC

VARIABLES
    \* ---- period lookup (get_pay_period_for_date and its caller) ----
    target_date,        \* the argument of get_pay_period_for_date
    period_ret,         \* what the lookup returned (<<>> before the call)
    \* ---- the shift store and the UI state bound to it ----
    db,                 \* rows of table shifts, in rowid order
    seq_id,             \* AUTOINCREMENT high-water mark (sqlite_sequence)
    clock,              \* CURRENT_TIMESTAMP, in seconds
    saved_shifts,       \* state.saved_shifts: the list on screen
    message,            \* state.message
    bulk_shift_message, \* state.bulk_shift_message
    summaries,          \* state.*_summary: what update_pay_calculations wrote
    last_op,            \* the handler that ran last, its input and result
    shifts_table,       \* <<>>: no table shifts; <<columns>>: the table's columns
    pc,                 \* where the process is: "main", "checked", "failed",
                        \* "exited", "gui"
    \* ---- the pay calculator, applied to drawn inputs ----
    calc_in,            \* the function applied and its arguments
    calc_out            \* what it returned (<<>> before the call)

period_vars == <<target_date, period_ret>>
store_vars == <<db, seq_id, clock, saved_shifts, message, bulk_shift_message,
                summaries, last_op, shifts_table, pc>>
boot_vars == <<shifts_table, pc>>
calc_vars == <<calc_in, calc_out>>
vars == <<target_date, period_ret, db, seq_id, clock, saved_shifts,
          message, bulk_shift_message, summaries, last_op, shifts_table, pc,
          calc_in, calc_out>>

(***************************************************************************)
(* Calendar: datetime.date and timedelta                                   *)
(***************************************************************************)
IsLeap(y) == (y % 4 = 0 /\ y % 100 # 0) \/ y % 400 = 0

DaysInMonth(y, m) ==
    IF m = 2 THEN (IF IsLeap(y) THEN 29 ELSE 28)
    ELSE IF m \in {4, 6, 9, 11} THEN 30 ELSE 31

\* days before January 1 of year y, counted from year 1
DaysBeforeYear(y) ==
    (y - 1) * 365 + ((y - 1) \div 4) - ((y - 1) \div 100) + ((y - 1) \div 400)

\* days of a common year before the first day of each month
DAYS_BEFORE_MONTH == <<0, 31, 59, 90, 120, 151, 181, 212, 243, 273, 304, 334>>

DaysBeforeMonth(y, m) ==
    DAYS_BEFORE_MONTH[m] + (IF m > 2 /\ IsLeap(y) THEN 1 ELSE 0)

\* date.toordinal(): January 1 of year 1 is day 1
ToOrdinal(dt) == DaysBeforeYear(dt[1]) + DaysBeforeMonth(dt[1], dt[2]) + dt[3]

\* the years the dates of the model lie in
Years == 2024..2027

\* date.fromordinal()
FromOrdinal(n) ==
    LET y == CHOOSE yy \in Years : DaysBeforeYear(yy) < n /\ n <= DaysBeforeYear(yy + 1)
        k == n - DaysBeforeYear(y)
        m == CHOOSE mm \in 1..12 : /\ DaysBeforeMonth(y, mm) < k
                                   /\ k <= DaysBeforeMonth(y, mm) + DaysInMonth(y, mm)
    IN  <<y, m, k - DaysBeforeMonth(y, m)>>

\* date + timedelta(days = k)
AddDays(dt, k) == FromOrdinal(ToOrdinal(dt) + k)

\* date < date and date <= date: by year, then month, then day
DateLt(a, b) ==
    \/ a[1] < b[1]
    \/ a[1] = b[1] /\ a[2] < b[2]
    \/ a[1] = b[1] /\ a[2] = b[2] /\ a[3] < b[3]

DateLeq(a, b) == a = b \/ DateLt(a, b)

(***************************************************************************)
(* The pay-period table and get_pay_period_for_date                        *)
(***************************************************************************)
PAY_PERIODS == <<
    [start |-> <<2025, 8, 10>>,  end |-> <<2025, 8, 23>>,  label |-> <<"Aug 10-23, 2025">>],
    [start |-> <<2025, 8, 24>>,  end |-> <<2025, 9, 6>>,   label |-> <<"Aug 24 - Sep 6, 2025">>],
    [start |-> <<2025, 9, 7>>,   end |-> <<2025, 9, 20>>,  label |-> <<"Sep 7-20, 2025">>],
    [start |-> <<2025, 9, 21>>,  end |-> <<2025, 10, 4>>,  label |-> <<"Sep 21 - Oct 4, 2025">>],
    [start |-> <<2025, 10, 5>>,  end |-> <<2025, 10, 18>>, label |-> <<"Oct 5-18, 2025">>],
    [start |-> <<2025, 10, 19>>, end |-> <<2025, 11, 1>>,  label |-> <<"Oct 19 - Nov 1, 2025">>],
    [start |-> <<2025, 11, 2>>,  end |-> <<2025, 11, 15>>, label |-> <<"Nov 2-15, 2025">>],
    [start |-> <<2025, 11, 16>>, end |-> <<2025, 11, 29>>, label |-> <<"Nov 16-29, 2025">>],
    [start |-> <<2025, 11, 30>>, end |-> <<2025, 12, 13>>, label |-> <<"Nov 30 - Dec 13, 2025">>],
    [start |-> <<2025, 12, 14>>, end |-> <<2025, 12, 27>>, label |-> <<"Dec 14-27, 2025">>] >>

\* timedelta(days=13): the offset of a synthesized period's last day
SynthSpan == 13

\* the fallback dictionary of get_pay_period_for_date
SynthPeriod(target_dt) ==
    [start |-> target_dt,
     end   |-> AddDays(target_dt, SynthSpan),
     label |-> <<"Period starting ", target_dt>>]

\* variant of InPeriod with the end day excluded (start_date <= target_dt < end_date)
InPeriodHalfOpen(period, target_dt) ==
    DateLeq(period.start, target_dt) /\ DateLt(target_dt, period.end)

\* start_date <= target_dt <= end_date
InPeriod(period, target_dt) ==
    DateLeq(period.start, target_dt) /\ DateLeq(target_dt, period.end)

\* the for loop: the first period of the table, from index i on, that holds the date
RECURSIVE FirstPeriodFrom(_, _)
FirstPeriodFrom(i, target_dt) ==
    IF i > Len(PAY_PERIODS) THEN SynthPeriod(target_dt)
    ELSE IF InPeriod(PAY_PERIODS[i], target_dt) THEN PAY_PERIODS[i]
    ELSE FirstPeriodFrom(i + 1, target_dt)

get_pay_period_for_date(target_dt) == FirstPeriodFrom(1, target_dt)

(***************************************************************************)
(* SpecPeriod: the lookup applied to every date around the table           *)
(***************************************************************************)
\* how many days before the first and after the last predefined period are probed
ProbeMargin == 20

FirstTableDay == ToOrdinal(PAY_PERIODS[1].start)
LastTableDay == ToOrdinal(PAY_PERIODS[Len(PAY_PERIODS)].end)

ProbeDates ==
    {FromOrdinal(n) : n \in (FirstTableDay - ProbeMargin)..(LastTableDay + ProbeMargin)}

PeriodIdle == target_date = <<2025, 8, 10>> /\ period_ret = <<>>

PeriodInit == target_date \in ProbeDates /\ period_ret = <<>>

CallGetPayPeriod ==
    /\ period_ret = <<>>
    /\ period_ret' = <<get_pay_period_for_date(target_date)>>
    /\ UNCHANGED target_date

(***************************************************************************)
(* Exact arithmetic: a number is <<numerator, denominator>> in lowest      *)
(* terms with a positive denominator (the program computes in floats).     *)
(***************************************************************************)
\* the value of a one-element set: Only({F(x) : x \in {e}}) is F(e), with e
\* evaluated once
Only(S) == CHOOSE x \in S : TRUE

RECURSIVE Gcd(_, _)
Gcd(a, b) == IF b = 0 THEN a ELSE Gcd(b, a % b)

Abs(a) == IF a < 0 THEN -a ELSE a

Norm(n, d) ==
    LET g == Gcd(Abs(n), Abs(d))
        sgn == IF d < 0 THEN -1 ELSE 1
    IN  <<sgn * (n \div g), sgn * (d \div g)>>

RInt(n) == <<n, 1>>

\* sums and comparisons go through the least common denominator, products cancel
\* crosswise first, so that no intermediate number is larger than it must be
Lcm(a, b) == (a \div Gcd(a, b)) * b

RAdd(a, b) ==
    Only({Norm(a[1] * (l \div a[2]) + b[1] * (l \div b[2]), l) : l \in {Lcm(a[2], b[2])}})

RSub(a, b) == RAdd(a, <<-b[1], b[2]>>)

RMul(a, b) ==
    Only({<<(a[1] \div g1) * (b[1] \div g2), (a[2] \div g2) * (b[2] \div g1)>> :
            g1 \in {Gcd(Abs(a[1]), b[2])}, g2 \in {Gcd(Abs(b[1]), a[2])}})

\* for b # 0
RDiv(a, b) == RMul(a, IF b[1] < 0 THEN <<-b[2], -b[1]>> ELSE <<b[2], b[1]>>)

RLt(a, b) ==
    Only({a[1] * (l \div a[2]) < b[1] * (l \div b[2]) : l \in {Lcm(a[2], b[2])}})

RLeq(a, b) == a = b \/ RLt(a, b)

RECURSIVE RSum(_)
RSum(seq) == IF seq = <<>> THEN RInt(0) ELSE RAdd(Head(seq), RSum(Tail(seq)))

(***************************************************************************)
(* calculate_hours_from_timesheet                                          *)
(***************************************************************************)
Digits == {"0", "1", "2", "3", "4", "5", "6", "7", "8", "9"}

DigitVal(c) ==
    CASE c = "0" -> 0 [] c = "1" -> 1 [] c = "2" -> 2 [] c = "3" -> 3 [] c = "4" -> 4
      [] c = "5" -> 5 [] c = "6" -> 6 [] c = "7" -> 7 [] c = "8" -> 8 [] c = "9" -> 9

\* %H: 2[0-3] | [0-1]\d | \d  --  the value of the hour field s[1..n], or -1
HourField(s, n) ==
    IF n = 1 /\ s[1] \in Digits THEN DigitVal(s[1])
    ELSE IF n = 2 /\ s[1] \in Digits /\ s[2] \in Digits
                  /\ 10 * DigitVal(s[1]) + DigitVal(s[2]) <= 23
         THEN 10 * DigitVal(s[1]) + DigitVal(s[2])
    ELSE -1

\* %M: [0-5]\d | \d, then the end of the text  --  the value of the rest, or -1
MinuteField(r) ==
    IF Len(r) = 1 /\ r[1] \in Digits THEN DigitVal(r[1])
    ELSE IF Len(r) = 2 /\ r[1] \in Digits /\ r[2] \in Digits /\ DigitVal(r[1]) <= 5
         THEN 10 * DigitVal(r[1]) + DigitVal(r[2])
    ELSE -1

\* datetime.strptime(s, "%H:%M") as minutes after midnight; -1 stands for ValueError
strptime(s) ==
    LET colon == IF Len(s) >= 2 /\ s[2] = ":" THEN 2
                 ELSE IF Len(s) >= 3 /\ s[3] = ":" THEN 3 ELSE 0
        h == IF colon = 0 THEN -1 ELSE HourField(s, colon - 1)
        m == IF colon = 0 THEN -1 ELSE MinuteField(SubSeq(s, colon + 1, Len(s)))
    IN  IF h < 0 \/ m < 0 THEN -1 ELSE 60 * h + m

\* timedelta(days=1), in minutes
DayMinutes == 24 * 60

\* variant that never moves the end to the next day
calculate_hours_no_wrap(start_time, end_time) ==
    LET start_dt == strptime(start_time)
        end_dt == strptime(end_time)
    IN  IF start_dt < 0 \/ end_dt < 0 THEN RInt(0)
        ELSE Norm(end_dt - start_dt, 60)

calculate_hours_from_timesheet(start_time, end_time) ==
    LET start_dt == strptime(start_time)
        end_dt == strptime(end_time)
        end_adj == IF end_dt <= start_dt THEN end_dt + DayMinutes ELSE end_dt
    IN  IF start_dt < 0 \/ end_dt < 0 THEN RInt(0)     \* except: return 0
        ELSE Norm(end_adj - start_dt, 60)               \* total_seconds() / 3600

(***************************************************************************)
(* PER_DIEM_RATES, calc_weekly_pay and calc_pay_period                     *)
(***************************************************************************)
PER_DIEM_OPTIONS == <<"None", "Breakfast Only", "Breakfast + Lunch",
                      "Breakfast + Lunch + Dinner", "Lunch + Dinner", "Dinner Only">>

\* PER_DIEM_RATES.get(choice, 0)
PER_DIEM_RATES(choice) ==
    CASE choice = "None" -> 0
      [] choice = "Breakfast Only" -> 11 + 4
      [] choice = "Breakfast + Lunch" -> 12 + 8
      [] choice = "Breakfast + Lunch + Dinner" -> 41 + 13
      [] choice = "Lunch + Dinner" -> 30 + 9
      [] choice = "Dinner Only" -> 18 + 5
      [] OTHER -> 0

RECURSIVE PerDiemSum(_)
PerDiemSum(choices) ==
    IF choices = <<>> THEN 0
    ELSE PER_DIEM_RATES(Head(choices)) + PerDiemSum(Tail(choices))

\* the weekly FLSA threshold ("if hours > 40")
WeeklyOtThreshold == 40

\* variant whose regular rate divides by the 40-hour threshold, not the hours worked
calc_weekly_pay_rate40(hours, per_diem_choices, site_bonus_days, base_weekly, site_bonus_day) ==
    LET base_pay == RInt(base_weekly)
        site_bonus == RInt(site_bonus_day * site_bonus_days)
        ot_pay == IF RLt(RInt(WeeklyOtThreshold), hours)
                  THEN RMul(RSub(hours, RInt(WeeklyOtThreshold)),
                            RMul(<<1, 2>>, RDiv(RAdd(base_pay, site_bonus),
                                                RInt(WeeklyOtThreshold))))
                  ELSE RInt(0)
    IN  [taxable_gross |-> RAdd(RAdd(base_pay, site_bonus), ot_pay),
         per_diem_total |-> RInt(PerDiemSum(per_diem_choices)),
         ot_pay |-> ot_pay]

calc_weekly_pay(hours, per_diem_choices, site_bonus_days, base_weekly, site_bonus_day) ==
    LET base_pay == RInt(base_weekly)
        site_bonus == RInt(site_bonus_day * site_bonus_days)
        ot_pay == IF RLt(RInt(WeeklyOtThreshold), hours)
                  THEN LET regular_rate == RDiv(RAdd(base_pay, site_bonus), hours)
                           ot_hours == RSub(hours, RInt(WeeklyOtThreshold))
                       IN  RMul(ot_hours, RMul(<<1, 2>>, regular_rate))
                  ELSE RInt(0)
    IN  [taxable_gross |-> RAdd(RAdd(base_pay, site_bonus), ot_pay),
         per_diem_total |-> RInt(PerDiemSum(per_diem_choices)),
         ot_pay |-> ot_pay]

\* variant that pays overtime on the two-week total above 80 hours
calc_pay_period_biweekly_ot(week1_hours, week2_hours, week1_per_diem, week2_per_diem, week1_site_bonus_days, week2_site_bonus_days, base_weekly, site_bonus_day, tax_rate) ==
    LET hours == RAdd(week1_hours, week2_hours)
        base == RInt(2 * base_weekly
                     + site_bonus_day * (week1_site_bonus_days + week2_site_bonus_days))
        ot == IF RLt(RInt(2 * WeeklyOtThreshold), hours)
              THEN RMul(RSub(hours, RInt(2 * WeeklyOtThreshold)),
                        RMul(<<1, 2>>, RDiv(base, hours)))
              ELSE RInt(0)
        total_taxable_gross == RAdd(base, ot)
        total_per_diem == RInt(PerDiemSum(week1_per_diem) + PerDiemSum(week2_per_diem))
    IN  [taxable_gross |-> total_taxable_gross,
         per_diem |-> total_per_diem,
         after_tax |-> RAdd(RSub(total_taxable_gross, RMul(total_taxable_gross, tax_rate)),
                            total_per_diem)]

calc_pay_period(week1_hours, week2_hours, week1_per_diem, week2_per_diem, week1_site_bonus_days, week2_site_bonus_days, base_weekly, site_bonus_day, tax_rate) ==
    LET w1 == calc_weekly_pay(week1_hours, week1_per_diem, week1_site_bonus_days,
                              base_weekly, site_bonus_day)
        w2 == calc_weekly_pay(week2_hours, week2_per_diem, week2_site_bonus_days,
                              base_weekly, site_bonus_day)
        total_taxable_gross == RAdd(w1.taxable_gross, w2.taxable_gross)
        total_per_diem == RAdd(w1.per_diem_total, w2.per_diem_total)
        taxes == RMul(total_taxable_gross, tax_rate)
        after_tax == RAdd(RSub(total_taxable_gross, taxes), total_per_diem)
    IN  [taxable_gross |-> total_taxable_gross,
         per_diem |-> total_per_diem,
         after_tax |-> after_tax]

(***************************************************************************)
(* SpecHours: calculate_hours_from_timesheet applied to clock texts        *)
(***************************************************************************)
DigitChar(n) ==
    CASE n = 0 -> "0" [] n = 1 -> "1" [] n = 2 -> "2" [] n = 3 -> "3" [] n = 4 -> "4"
      [] n = 5 -> "5" [] n = 6 -> "6" [] n = 7 -> "7" [] n = 8 -> "8" [] n = 9 -> "9"

\* the text "HH:MM" of hour h and minute m, zero padded
FmtHM(h, m) ==
    <<DigitChar(h \div 10), DigitChar(h % 10), ":", DigitChar(m \div 10), DigitChar(m % 10)>>

\* the minutes of the hour that are tried
MinuteGrid == {0, 15, 59}

\* a well-formed text with the minutes after midnight it denotes
WellFormedTimes ==
    {[text |-> FmtHM(h, m), minutes |-> 60 * h + m] : h \in 0..23, m \in MinuteGrid}

\* texts strptime rejects: "", "0800", "24:00", "08:60", "ab:cd", "08:00:00", " 08:00"
MalformedTimes ==
    {[text |-> t, minutes |-> -1] :
        t \in { <<>>,
                <<"0", "8", "0", "0">>,
                <<"2", "4", ":", "0", "0">>,
                <<"0", "8", ":", "6", "0">>,
                <<"a", "b", ":", "c", "d">>,
                <<"0", "8", ":", "0", "0", ":", "0", "0">>,
                <<" ", "0", "8", ":", "0", "0">> }}

TimeInputs == WellFormedTimes \cup MalformedTimes

HoursInputs ==
    {[fn |-> "calculate_hours_from_timesheet",
      start_time |-> a.text, end_time |-> b.text,
      start_min |-> a.minutes, end_min |-> b.minutes] : a \in TimeInputs, b \in TimeInputs}

CalcIdle == calc_in = [fn |-> "none"] /\ calc_out = <<>>

HoursInit == calc_in \in HoursInputs /\ calc_out = <<>>

CallCalculateHours ==
    /\ calc_in.fn = "calculate_hours_from_timesheet"
    /\ calc_out = <<>>
    /\ calc_out' = <<calculate_hours_from_timesheet(calc_in.start_time, calc_in.end_time)>>
    /\ UNCHANGED calc_in

(***************************************************************************)
(* SpecPay: calc_weekly_pay and calc_pay_period applied to drawn weeks     *)
(***************************************************************************)
\* weekly hours: 0, 8, 40, 40.5, 45, 60
WeekHours == {<<0, 1>>, <<8, 1>>, <<40, 1>>, <<81, 2>>, <<45, 1>>, <<60, 1>>}

\* per-diem lists, one with a category PER_DIEM_RATES does not know
PerDiemLists ==
    { <<>>,
      <<"Lunch + Dinner", "Breakfast Only", "None">>,
      <<"Snack", "Dinner Only", "Breakfast + Lunch", "Breakfast + Lunch + Dinner">> }

BonusDayCounts == {0, 1, 3}
BaseWeeklyValues == {700}
SiteBonusDayValues == {45}
\* the slider's range ends and its default, in percent
TaxRatePercents == {10, 15, 25}

WeeklyInputs ==
    {[fn |-> "calc_weekly_pay", hours |-> h, per_diem_choices |-> pd,
      site_bonus_days |-> n, base_weekly |-> b, site_bonus_day |-> sb] :
        h \in WeekHours, pd \in PerDiemLists, n \in BonusDayCounts,
        b \in BaseWeeklyValues, sb \in SiteBonusDayValues}

PeriodPayInputs ==
    {[fn |-> "calc_pay_period", week1_hours |-> h1, week2_hours |-> h2,
      week1_per_diem |-> pd1, week2_per_diem |-> pd2,
      week1_site_bonus_days |-> n1, week2_site_bonus_days |-> n2,
      base_weekly |-> b, site_bonus_day |-> sb, tax_rate |-> Norm(p, 100)] :
        h1 \in WeekHours, h2 \in WeekHours, pd1 \in PerDiemLists, pd2 \in PerDiemLists,
        n1 \in BonusDayCounts, n2 \in BonusDayCounts,
        b \in BaseWeeklyValues, sb \in SiteBonusDayValues, p \in TaxRatePercents}

PayInit == calc_in \in (WeeklyInputs \cup PeriodPayInputs) /\ calc_out = <<>>

CallCalcWeeklyPay ==
    /\ calc_in.fn = "calc_weekly_pay"
    /\ calc_out = <<>>
    /\ calc_out' = <<calc_weekly_pay(calc_in.hours, calc_in.per_diem_choices,
                                     calc_in.site_bonus_days, calc_in.base_weekly,
                                     calc_in.site_bonus_day)>>
    /\ UNCHANGED calc_in

CallCalcPayPeriod ==
    /\ calc_in.fn = "calc_pay_period"
    /\ calc_out = <<>>
    /\ calc_out' = <<calc_pay_period(calc_in.week1_hours, calc_in.week2_hours,
                                     calc_in.week1_per_diem, calc_in.week2_per_diem,
                                     calc_in.week1_site_bonus_days,
                                     calc_in.week2_site_bonus_days,
                                     calc_in.base_weekly, calc_in.site_bonus_day,
                                     calc_in.tax_rate)>>
    /\ UNCHANGED calc_in

(***************************************************************************)
(* get_current_and_previous_periods                                        *)
(***************************************************************************)
\* variant of the loop that stops at the first period that ends before current_start
RECURSIVE FirstEndingBefore(_, _, _)
FirstEndingBefore(i, current_start, found) ==
    IF i > Len(PAY_PERIODS) \/ found # <<>> THEN found
    ELSE FirstEndingBefore(i + 1, current_start,
                           IF DateLt(PAY_PERIODS[i].end, current_start)
                           THEN <<PAY_PERIODS[i]>> ELSE found)

\* the for loop: the last period of the table that ends before current_start
RECURSIVE LastEndingBefore(_, _, _)
LastEndingBefore(i, current_start, found) ==
    IF i > Len(PAY_PERIODS) THEN found
    ELSE LastEndingBefore(i + 1, current_start,
                          IF DateLt(PAY_PERIODS[i].end, current_start)
                          THEN <<PAY_PERIODS[i]>> ELSE found)

get_current_and_previous_periods(today) ==
    LET current_period == get_pay_period_for_date(today)
        current_start == current_period.start
        found == LastEndingBefore(1, current_start, <<>>)
        prev_end == AddDays(current_start, -1)
        prev_start == AddDays(prev_end, -SynthSpan)
    IN  [current |-> current_period,
         previous |-> IF found # <<>> THEN found[1]
                      ELSE [start |-> prev_start, end |-> prev_end,
                            label |-> <<"Previous Period">>]]

\* SpecPeriods inputs: date.today() on every day around the table
PeriodsInputs ==
    {[fn |-> "get_current_and_previous_periods", today |-> d] : d \in ProbeDates}

PeriodsInit == calc_in \in PeriodsInputs /\ calc_out = <<>>

CallGetCurrentAndPrevious ==
    /\ calc_in.fn = "get_current_and_previous_periods"
    /\ calc_out = <<>>
    /\ calc_out' = <<get_current_and_previous_periods(calc_in.today)>>
    /\ UNCHANGED calc_in

(***************************************************************************)
(* The query results: ORDER BY date DESC, created_at DESC                  *)
(***************************************************************************)
\* comparison of the stored ISO texts "YYYY-MM-DD": field by field, left to right
TextLt(a, b) ==
    \/ a[1] < b[1]
    \/ a[1] = b[1] /\ a[2] < b[2]
    \/ a[1] = b[1] /\ a[2] = b[2] /\ a[3] < b[3]

\* row a may come right before row b in the result
MayPrecede(a, b) ==
    \/ TextLt(b.date, a.date)
    \/ a.date = b.date /\ a.created_at >= b.created_at

IndexOrders(n) ==
    {p \in [1..n -> 1..n] : \A i, j \in 1..n : i # j => p[i] # p[j]}

\* variant of the query without the ORDER BY clause: any order of the rows
QueryUnordered(rows) ==
    {[i \in 1..Len(rows) |-> rows[p[i]]] : p \in IndexOrders(Len(rows))}

\* Every result the query may produce: SQLite leaves the order of rows that are
\* equal on all ORDER BY terms undefined.
QueryOrdered(rows) ==
    {r \in {[i \in 1..Len(rows) |-> rows[p[i]]] : p \in IndexOrders(Len(rows))} :
        \A i \in 1..(Len(rows) - 1) : MayPrecede(r[i], r[i + 1])}

(***************************************************************************)
(* analyze_timesheet_by_periods                                            *)
(***************************************************************************)
\* timedelta(days=6) and timedelta(days=7)
Week1LastOffset == 6
Week2FirstOffset == 7

\* df['hours']: the hours of each row
RowHours(df) ==
    [i \in 1..Len(df) |-> calculate_hours_from_timesheet(df[i].start_time, df[i].end_time)]

\* df[(df['date'] >= lo) & (df['date'] <= hi)], as the indices kept
RowsBetween(df, lo, hi) ==
    SelectSeq([i \in 1..Len(df) |-> i],
              LAMBDA i : DateLeq(lo, df[i].date) /\ DateLeq(df[i].date, hi))

\* series.sum() over the rows idx
HoursOf(df, idx) == RSum([k \in 1..Len(idx) |-> RowHours(df)[idx[k]]])
PerDiemOf(df, idx) == [k \in 1..Len(idx) |-> df[idx[k]].per_diem]
BonusDaysOf(df, idx) == Len(SelectSeq(idx, LAMBDA i : df[i].site_bonus = 1))

\* variant whose first week runs one day too long (period_start + 7 days)
Week1EndLate(period_start) == AddDays(period_start, Week2FirstOffset)

\* week1_end = period_start + timedelta(days=6)
Week1End(period_start) == AddDays(period_start, Week1LastOffset)

\* the totals of one week's rows: hours, per-diem choices, site-bonus days
WeekTotals(df, idx) ==
    [hours |-> HoursOf(df, idx), per_diem |-> PerDiemOf(df, idx),
     site_bonus_days |-> BonusDaysOf(df, idx)]

\* the dictionary analyze_period_weekly returns for two weeks' totals
PeriodTotals(week1, week2, days, period_label) ==
    [week1_hours |-> week1.hours, week2_hours |-> week2.hours,
     week1_per_diem |-> week1.per_diem, week2_per_diem |-> week2.per_diem,
     week1_site_bonus_days |-> week1.site_bonus_days,
     week2_site_bonus_days |-> week2.site_bonus_days,
     period_label |-> period_label,
     hours |-> RAdd(week1.hours, week2.hours),
     days |-> days,
     site_bonus_days |-> week1.site_bonus_days + week2.site_bonus_days]

\* week1_data: the rows from week1_start through week1_end
Week1Rows(df, period_idx, period_start) ==
    SelectSeq(period_idx, LAMBDA i : DateLeq(period_start, df[i].date)
                                     /\ DateLeq(df[i].date, Week1End(period_start)))

\* week2_data: the rows from week2_start on
Week2Rows(df, period_idx, period_start) ==
    SelectSeq(period_idx,
              LAMBDA i : DateLeq(AddDays(period_start, Week2FirstOffset), df[i].date))

\* period_idx: the rows of df that are in the period (period_df); an empty week
\* sums to 0, as the conditional expressions of the source make it
analyze_period_weekly(df, period_idx, period_start, period_label) ==
    IF period_idx = <<>> THEN
        [week1_hours |-> RInt(0), week2_hours |-> RInt(0),
         week1_per_diem |-> <<>>, week2_per_diem |-> <<>>,
         week1_site_bonus_days |-> 0, week2_site_bonus_days |-> 0,
         period_label |-> period_label, hours |-> RInt(0), days |-> 0,
         site_bonus_days |-> 0]
    ELSE
        Only({PeriodTotals(week1, week2, Len(period_idx), period_label) :
                week1 \in {WeekTotals(df, Week1Rows(df, period_idx, period_start))},
                week2 \in {WeekTotals(df, Week2Rows(df, period_idx, period_start))}})

\* the dictionaries returned for an empty table and after an exception: they have
\* no 'hours', 'days' or 'site_bonus_days' entry
BarePeriod(label) ==
    [week1_hours |-> RInt(0), week2_hours |-> RInt(0),
     week1_per_diem |-> <<>>, week2_per_diem |-> <<>>,
     week1_site_bonus_days |-> 0, week2_site_bonus_days |-> 0,
     period_label |-> label]

\* df[(df['date'] >= start) & (df['date'] <= end)], then analyze_period_weekly
AnalyzePeriod(df, period) ==
    Only({analyze_period_weekly(df, period_idx, period.start, period.label) :
            period_idx \in {RowsBetween(df, period.start, period.end)}})

\* df: the query's result; raised: the query raised
analyze_timesheet_by_periods(df, raised, today) ==
    IF raised THEN
        [current_period |-> BarePeriod(<<"Error">>),
         previous_period |-> BarePeriod(<<"Error">>), total_shifts |-> 0]
    ELSE IF df = <<>> THEN
        [current_period |-> BarePeriod(<<"No data">>),
         previous_period |-> BarePeriod(<<"No data">>), total_shifts |-> 0]
    ELSE
        Only({[current_period |-> AnalyzePeriod(df, periods.current),
               previous_period |-> AnalyzePeriod(df, periods.previous),
               total_shifts |-> Len(df)] :
                periods \in {get_current_and_previous_periods(today)}})

(***************************************************************************)
(* calculate_monthly_projections and update_pay_calculations               *)
(***************************************************************************)
CountOf(seq, x) == Len(SelectSeq(seq, LAMBDA y : y = x))

\* Counter(choices).most_common(1)[0][0]: the most frequent choice, the one met
\* first among equally frequent ones
MostCommon(choices) ==
    choices[CHOOSE i \in 1..Len(choices) :
                /\ \A j \in 1..Len(choices) :
                       CountOf(choices, choices[j]) <= CountOf(choices, choices[i])
                /\ \A j \in 1..(i - 1) :
                       CountOf(choices, choices[j]) < CountOf(choices, choices[i])]

\* int(x) for x >= 0
RFloor(x) == x[1] \div x[2]

\* the scenarios dictionary, in insertion order
Scenarios == << [name |-> "Light Month (5 days)", days |-> 5],
                [name |-> "Average Month (20 days)", days |-> 20],
                [name |-> "Heavy Month (28 days)", days |-> 28] >>

\* base_weekly * 4
WeeksPerMonth == 4

\* variant of the loop body that pays overtime above the weekly threshold
MonthlyTakeHomeWeeklyOt(current_data, days_per_month, base_weekly, site_bonus_day, tax_rate) ==
    LET avg_hours_per_day == RDiv(current_data.hours, RInt(current_data.days))
        site_bonus_rate == Norm(current_data.site_bonus_days, current_data.days)
        most_common_per_diem ==
            IF current_data.per_diem_choices # <<>>
            THEN MostCommon(current_data.per_diem_choices) ELSE "None"
        total_hours == RMul(avg_hours_per_day, RInt(days_per_month))
        total_site_bonus_days == RFloor(RMul(site_bonus_rate, RInt(days_per_month)))
        monthly_base == RInt(base_weekly * WeeksPerMonth)
        site_bonus_total == RInt(site_bonus_day * total_site_bonus_days)
        ot_pay == IF RLt(RInt(WeeklyOtThreshold), total_hours)
                  THEN RMul(RSub(total_hours, RInt(WeeklyOtThreshold)),
                            RMul(<<1, 2>>, RDiv(RAdd(monthly_base, site_bonus_total),
                                                total_hours)))
                  ELSE RInt(0)
        taxable_gross == RAdd(RAdd(monthly_base, site_bonus_total), ot_pay)
        per_diem_total == RInt(PER_DIEM_RATES(most_common_per_diem) * days_per_month)
        taxes == RMul(taxable_gross, RDiv(tax_rate, RInt(100)))
    IN  RAdd(RSub(taxable_gross, taxes), per_diem_total)

\* one pass of the for loop: the take-home pay of a month of days_per_month days
MonthlyTakeHome(current_data, days_per_month, base_weekly, site_bonus_day, tax_rate) ==
    LET avg_hours_per_day == RDiv(current_data.hours, RInt(current_data.days))
        site_bonus_rate == Norm(current_data.site_bonus_days, current_data.days)
        most_common_per_diem ==
            IF current_data.per_diem_choices # <<>>
            THEN MostCommon(current_data.per_diem_choices) ELSE "None"
        total_hours == RMul(avg_hours_per_day, RInt(days_per_month))
        total_site_bonus_days == RFloor(RMul(site_bonus_rate, RInt(days_per_month)))
        monthly_base == RInt(base_weekly * WeeksPerMonth)
        site_bonus_total == RInt(site_bonus_day * total_site_bonus_days)
        monthly_ot_threshold == RInt(WeeklyOtThreshold * WeeksPerMonth)
        ot_pay == IF RLt(monthly_ot_threshold, total_hours)
                  THEN LET regular_rate == RDiv(RAdd(monthly_base, site_bonus_total),
                                                total_hours)
                           ot_hours == RSub(total_hours, monthly_ot_threshold)
                       IN  RMul(ot_hours, RMul(<<1, 2>>, regular_rate))
                  ELSE RInt(0)
        taxable_gross == RAdd(RAdd(monthly_base, site_bonus_total), ot_pay)
        per_diem_total == RInt(PER_DIEM_RATES(most_common_per_diem) * days_per_month)
        taxes == RMul(taxable_gross, RDiv(tax_rate, RInt(100)))
    IN  RAdd(RSub(taxable_gross, taxes), per_diem_total)

calculate_monthly_projections(current_data, base_weekly, site_bonus_day, tax_rate) ==
    IF current_data.hours = RInt(0) \/ current_data.days = 0
    THEN << [Scenario |-> "No data available", Income |-> RInt(0)] >>
    ELSE [k \in 1..Len(Scenarios) |->
            [Scenario |-> Scenarios[k].name,
             Income |-> MonthlyTakeHome(current_data, Scenarios[k].days,
                                        base_weekly, site_bonus_day, tax_rate)]]

\* SpecProjection inputs: samples as update_pay_calculations builds them (days is
\* the length of the per-diem list, bonus days are at most the days, no hours
\* without days), the settings, and the tax rate as a percentage and as a decimal
SampleDays == {0, 1, 2, 5}
SampleHours == {<<0, 1>>, <<8, 1>>, <<16, 1>>, <<45, 1>>, <<81, 2>>}
SampleBonusDays == {0, 1, 3}

SampleChoices(n) ==
    { [i \in 1..n |-> "Lunch + Dinner"],
      [i \in 1..n |-> IF i % 2 = 1 THEN "None" ELSE "Breakfast Only"],
      [i \in 1..n |-> IF i = 1 THEN "Dinner Only" ELSE "Snack"] }

ProjectionSamples ==
    UNION {{[hours |-> IF n = 0 THEN <<0, 1>> ELSE h, days |-> n,
             site_bonus_days |-> IF b <= n THEN b ELSE n, per_diem_choices |-> c] :
                h \in SampleHours, b \in SampleBonusDays, c \in SampleChoices(n)} :
           n \in SampleDays}

ProjectionInputs ==
    {[fn |-> "calculate_monthly_projections", current_data |-> sample,
      base_weekly |-> bw, site_bonus_day |-> sb, tax_rate |-> t] :
        sample \in ProjectionSamples,
        bw \in BaseWeeklyValues, sb \in SiteBonusDayValues,
        t \in {<<p, 1>> : p \in TaxRatePercents} \cup {Norm(p, 100) : p \in TaxRatePercents}}

ProjectionInit == calc_in \in ProjectionInputs /\ calc_out = <<>>

CallCalculateMonthlyProjections ==
    /\ calc_in.fn = "calculate_monthly_projections"
    /\ calc_out = <<>>
    /\ calc_out' = <<calculate_monthly_projections(calc_in.current_data, calc_in.base_weekly,
                                                   calc_in.site_bonus_day, calc_in.tax_rate)>>
    /\ UNCHANGED calc_in

\* calc_pay_period on one period's dictionary
PeriodPay(p, base_weekly, site_bonus_day, tax_rate_decimal) ==
    calc_pay_period(p.week1_hours, p.week2_hours, p.week1_per_diem, p.week2_per_diem,
                    p.week1_site_bonus_days, p.week2_site_bonus_days,
                    base_weekly, site_bonus_day, tax_rate_decimal)

\* what one summary text shows (the numbers, before they are formatted)
PeriodSummary(p, pay) ==
    [period_label |-> p.period_label,
     week1_hours |-> p.week1_hours, week1_site_bonus_days |-> p.week1_site_bonus_days,
     week2_hours |-> p.week2_hours, week2_site_bonus_days |-> p.week2_site_bonus_days,
     hours |-> p.hours, days |-> p.days,
     per_diem_total |-> pay.per_diem, after_tax |-> pay.after_tax]

\* current_for_projection: week 1 of the current period, or week 2 when week 1
\* has no hours
ProjectionSample(current) ==
    IF RLt(RInt(0), current.week1_hours)
    THEN [hours |-> current.week1_hours, days |-> Len(current.week1_per_diem),
          site_bonus_days |-> current.week1_site_bonus_days,
          per_diem_choices |-> current.week1_per_diem]
    ELSE [hours |-> current.week2_hours, days |-> Len(current.week2_per_diem),
          site_bonus_days |-> current.week2_site_bonus_days,
          per_diem_choices |-> current.week2_per_diem]

\* what update_pay_calculations assigns to state
Assigned(data, current_pay, previous_pay, projections) ==
    [raised |-> FALSE,
     current_period_summary |-> PeriodSummary(data.current_period, current_pay),
     previous_period_summary |-> PeriodSummary(data.previous_period, previous_pay),
     total_pay_summary |->
         [total_shifts |-> data.total_shifts,
          combined |-> RAdd(current_pay.after_tax, previous_pay.after_tax)],
     monthly_projections |-> projections]

\* update_pay_calculations on the analysis `data`, with tax_rate in percent.
\* [raised |-> TRUE] stands for the KeyError of current['hours'] on a dictionary
\* that has no such entry: nothing of state has been assigned by then.
update_pay_calculations(data, base_weekly, site_bonus_day, tax_rate) ==
    IF "hours" \notin DOMAIN data.current_period THEN [raised |-> TRUE]
    ELSE Only({Assigned(data, current_pay, previous_pay,
                        calculate_monthly_projections(sample, base_weekly,
                                                      site_bonus_day, tax_rate_decimal)) :
                tax_rate_decimal \in {Norm(tax_rate, 100)},
                current_pay \in {PeriodPay(data.current_period, base_weekly,
                                           site_bonus_day, Norm(tax_rate, 100))},
                previous_pay \in {PeriodPay(data.previous_period, base_weekly,
                                            site_bonus_day, Norm(tax_rate, 100))},
                sample \in {ProjectionSample(data.current_period)}})

(***************************************************************************)
(* The shift store: table shifts and the functions that query it           *)
(***************************************************************************)
\* the calculator settings the page starts with
DefaultBaseWeekly == 700
DefaultSiteBonusDay == 45
DefaultTaxRate == 15

\* bounds of the store: rows in the table, ids ever assigned, seconds on the clock
MaxShifts == 2
MaxId == 2
MaxClock == 1

\* str.strip(): the text without its leading and trailing blanks
RECURSIVE StripLeft(_)
StripLeft(s) == IF s # <<>> /\ Head(s) = " " THEN StripLeft(Tail(s)) ELSE s

RECURSIVE StripRight(_)
StripRight(s) ==
    IF s # <<>> /\ s[Len(s)] = " " THEN StripRight(SubSeq(s, 1, Len(s) - 1)) ELSE s

Strip(s) == StripRight(StripLeft(s))

\* The row INSERT adds: the id follows the highest id ever assigned
\* (AUTOINCREMENT); created_at defaults to CURRENT_TIMESTAMP.
NewRow(last_id, now, shift_date, start_time, end_time, per_diem, site_bonus) ==
    [id |-> last_id + 1, date |-> shift_date,
     start_time |-> start_time, end_time |-> end_time, per_diem |-> per_diem,
     site_bonus |-> IF site_bonus THEN 1 ELSE 0, created_at |-> now]

\* variant whose INSERT takes effect although the function reports a failure
save_shift_to_db_partial(rows, last_id, now, raised, shift_date, start_time, end_time, per_diem, site_bonus) ==
    [rows |-> Append(rows, NewRow(last_id, now, shift_date, start_time, end_time,
                                  per_diem, site_bonus)),
     last_id |-> last_id + 1, ret |-> ~raised]

\* save_shift_to_db: the table afterwards and the value returned
save_shift_to_db(rows, last_id, now, raised, shift_date, start_time, end_time, per_diem, site_bonus) ==
    IF raised THEN [rows |-> rows, last_id |-> last_id, ret |-> FALSE]
    ELSE [rows |-> Append(rows, NewRow(last_id, now, shift_date, start_time, end_time,
                                       per_diem, site_bonus)),
          last_id |-> last_id + 1, ret |-> TRUE]

\* variant of the DELETE with no WHERE clause
delete_shift_unfiltered(rows, raised, shift_id) ==
    IF raised THEN [rows |-> rows, ret |-> FALSE]
    ELSE [rows |-> <<>>, ret |-> Len(rows) > 0]

\* delete_shift_from_db: DELETE FROM shifts WHERE id = ?, then rowcount > 0
delete_shift_from_db(rows, raised, shift_id) ==
    IF raised THEN [rows |-> rows, ret |-> FALSE]
    ELSE LET kept == SelectSeq(rows, LAMBDA r : r.id # shift_id)
             affected_rows == Len(rows) - Len(kept)
         IN  [rows |-> kept, ret |-> affected_rows > 0]

\* variant that reports the rows left, not the rows deleted
delete_all_shifts_miscount(rows, raised) ==
    IF raised THEN [rows |-> rows, ret |-> 0]
    ELSE [rows |-> <<>>, ret |-> 0]

\* delete_all_shifts: DELETE FROM shifts, then rowcount
delete_all_shifts(rows, raised) ==
    IF raised THEN [rows |-> rows, ret |-> 0]
    ELSE [rows |-> <<>>, ret |-> Len(rows)]

\* the columns get_saved_shifts selects
Shown(r) ==
    [id |-> r.id, date |-> r.date, start_time |-> r.start_time, end_time |-> r.end_time,
     per_diem |-> r.per_diem, site_bonus |-> IF r.site_bonus = 1 THEN "Yes" ELSE "No"]

\* get_saved_shifts: every frame it may return (the empty frame when it raised)
get_saved_shifts(rows, raised) ==
    IF raised THEN {<<>>}
    ELSE {[i \in 1..Len(df) |-> Shown(df[i])] : df \in QueryOrdered(rows)}

\* analyze_timesheet_by_periods on every result its query may produce
Analyses(rows, raised, today) ==
    IF raised THEN {analyze_timesheet_by_periods(<<>>, TRUE, today)}
    ELSE {analyze_timesheet_by_periods(df, FALSE, today) : df \in QueryOrdered(rows)}

(***************************************************************************)
(* The UI handlers                                                         *)
(***************************************************************************)
\* what the user may have entered in the shift form when Save Shift is pressed
ShiftInputs ==
    { [selected_day |-> <<2025, 8, 12>>, start_time |-> FmtHM(8, 0),
       end_time |-> FmtHM(17, 0), per_diem |-> "None", site_bonus |-> FALSE],
      [selected_day |-> <<2025, 8, 19>>, start_time |-> FmtHM(22, 0) \o <<" ">>,
       end_time |-> FmtHM(6, 0), per_diem |-> "Lunch + Dinner", site_bonus |-> TRUE],
      [selected_day |-> <<2025, 7, 30>>, start_time |-> <<>>,
       end_time |-> FmtHM(17, 0), per_diem |-> "Breakfast Only", site_bonus |-> FALSE] }

\* date.today() on the days the handlers run
Todays == { <<2025, 8, 20>> }

\* int(text): the number a text of digits denotes; -1 stands for ValueError
RECURSIVE DigitsValue(_, _)
DigitsValue(s, acc) ==
    IF s = <<>> THEN acc
    ELSE IF Head(s) \in Digits THEN DigitsValue(Tail(s), 10 * acc + DigitVal(Head(s)))
    ELSE -1

ParseInt(s) == IF s = <<>> THEN -1 ELSE DigitsValue(s, 0)

\* what the user may have entered in the Shift ID field: blanks, a word, and
\* each id the table ever assigns, followed by a blank
DeleteIdTexts ==
    { <<" ">>, <<"x">> } \cup { <<DigitChar(n), " ">> : n \in 1..MaxId }

\* the columns CREATE TABLE gives the table shifts
SchemaColumns ==
    {"id", "date", "start_time", "end_time", "per_diem", "site_bonus", "created_at"}

\* whether the SELECT statements of get_saved_shifts and
\* analyze_timesheet_by_periods may run: they raise when the table lacks a column
\* they name, and may raise on a storage fault otherwise
QueryFaults ==
    IF shifts_table = <<SchemaColumns>> THEN BOOLEAN ELSE {TRUE}

NoOp == [op |-> "none", input |-> <<>>, shift_id |-> 0, new_id |-> 0, ret |-> FALSE,
         count |-> 0, called |-> FALSE, raised |-> FALSE, listed |-> FALSE,
         updated |-> FALSE]

\* the handler's record: which one ran, what it passed to the store and what the
\* store answered
Ran(op, fields) ==
    [f \in DOMAIN NoOp |->
        IF f = "op" THEN op
        ELSE IF f \in DOMAIN fields THEN fields[f] ELSE NoOp[f]]

StoreInit ==
    /\ db = <<>>
    /\ seq_id = 0
    /\ clock = 0
    /\ saved_shifts = <<>>
    /\ message = <<"Ready to enter shift data">>
    /\ bulk_shift_message = <<>>
    /\ summaries = <<>>
    /\ last_op = NoOp
    /\ shifts_table = <<SchemaColumns>>
    /\ pc = "gui"

\* The tail the handlers share: state.saved_shifts = get_saved_shifts(), then
\* update_pay_calculations(state), then the handler's message.  When the update
\* raises, the handler ends there and the message is not assigned.  A storage
\* fault lasts for the handler's run: `raised` says whether the queries raise.
Refresh(rows, raised, done_message, op, fields) ==
    \E today \in Todays :
        \E shown \in get_saved_shifts(rows, raised), data \in Analyses(rows, raised, today) :
            \E upd \in {update_pay_calculations(data, DefaultBaseWeekly,
                                                 DefaultSiteBonusDay, DefaultTaxRate)} :
                /\ saved_shifts' = shown
                /\ IF upd.raised
                   THEN /\ UNCHANGED summaries
                        /\ message' = IF op = "on_init"
                                      THEN <<"Ready - shifts loaded: ", Len(shown)>>
                                      ELSE message
                   ELSE /\ summaries' = <<upd>>
                        /\ message' = IF op = "on_init"
                                      THEN <<"Ready - shifts loaded: ", Len(shown)>>
                                      ELSE done_message
                /\ last_op' = Ran(op, fields @@ [listed |-> ~raised,
                                                 updated |-> ~upd.raised])

\* on_init(state)
OnInit ==
    /\ pc = "gui"
    /\ \E raised \in QueryFaults :
        Refresh(db, raised, <<>>, "on_init", [raised |-> raised])
    /\ UNCHANGED <<db, seq_id, clock>>

\* save_shift(state)
SaveShift ==
    /\ pc = "gui"
    /\ Len(db) < MaxShifts
    /\ seq_id < MaxId
    /\ \E inp \in ShiftInputs, raised \in BOOLEAN :
        \E r \in {save_shift_to_db(db, seq_id, clock, raised, inp.selected_day,
                                    Strip(inp.start_time), Strip(inp.end_time),
                                    inp.per_diem, inp.site_bonus)} :
            /\ db' = r.rows
            /\ seq_id' = r.last_id
            /\ IF r.ret
               THEN Refresh(r.rows, FALSE, <<"Shift saved and pay updated for ", inp.selected_day>>,
                            "save_shift",
                            [input |-> inp, called |-> TRUE, raised |-> raised,
                             ret |-> TRUE, new_id |-> r.last_id])
               ELSE /\ message' = <<"Failed to save shift">>
                    /\ last_op' = Ran("save_shift", [input |-> inp, called |-> TRUE,
                                                      raised |-> raised])
                    /\ UNCHANGED <<saved_shifts, summaries>>
    /\ UNCHANGED clock

\* delete_selected_shift(state)
DeleteSelectedShift ==
    /\ pc = "gui"
    /\ \E text \in DeleteIdTexts, raised \in BOOLEAN :
        IF Strip(text) = <<>> THEN
            /\ message' = <<"Please enter a Shift ID to delete">>
            /\ last_op' = Ran("delete_selected_shift", [input |-> text])
            /\ UNCHANGED <<db, saved_shifts, summaries>>
        ELSE IF ParseInt(Strip(text)) < 0 THEN          \* except ValueError
            /\ message' = <<"Please enter a valid numeric Shift ID">>
            /\ last_op' = Ran("delete_selected_shift", [input |-> text])
            /\ UNCHANGED <<db, saved_shifts, summaries>>
        ELSE
            \E shift_id \in {ParseInt(Strip(text))} :
            \E r \in {delete_shift_from_db(db, raised, shift_id)} :
            \E fields \in {[input |-> text, called |-> TRUE, raised |-> raised,
                            shift_id |-> shift_id, ret |-> r.ret]} :
                /\ db' = r.rows
                /\ IF r.ret
                   THEN Refresh(r.rows, FALSE, <<"Shift ID deleted successfully: ", shift_id>>,
                                "delete_selected_shift", fields)
                   ELSE /\ message' = <<"Shift ID not found: ", shift_id>>
                        /\ last_op' = Ran("delete_selected_shift", fields)
                        /\ UNCHANGED <<saved_shifts, summaries>>
    /\ UNCHANGED <<seq_id, clock>>

\* clear_all_shifts(state)
ClearAllShifts ==
    /\ pc = "gui"
    /\ \E raised \in BOOLEAN :
        \E r \in {delete_all_shifts(db, raised)} :
        \E fields \in {[called |-> TRUE, raised |-> raised, count |-> r.ret]} :
            /\ db' = r.rows
            /\ IF r.ret > 0
               THEN Refresh(r.rows, FALSE, <<"All shifts deleted: ", r.ret>>,
                            "clear_all_shifts", fields)
               ELSE /\ message' = <<"No shifts to delete">>
                    /\ last_op' = Ran("clear_all_shifts", fields)
                    /\ UNCHANGED <<saved_shifts, summaries>>
    /\ UNCHANGED <<seq_id, clock>>

\* what the user may have entered as the dates of a bulk entry: an end before
\* the start, one day, two days
BulkRanges ==
    { [bulk_start_date |-> <<2025, 8, 12>>, bulk_end_date |-> <<2025, 8, 11>>],
      [bulk_start_date |-> <<2025, 8, 12>>, bulk_end_date |-> <<2025, 8, 12>>],
      [bulk_start_date |-> <<2025, 8, 12>>, bulk_end_date |-> <<2025, 8, 13>>] }

\* the while loop of bulk_add_shifts: one save_shift_to_db for each day from
\* curr through the end date; the table, the AUTOINCREMENT mark and count
RECURSIVE BulkSaves(_, _, _, _, _, _, _, _)
BulkSaves(rows, last_id, count, now, raised, curr, bulk_end_date, inp) ==
    IF DateLt(bulk_end_date, curr) THEN [rows |-> rows, last_id |-> last_id, count |-> count]
    ELSE LET r == save_shift_to_db(rows, last_id, now, raised, curr,
                                   Strip(inp.start_time), Strip(inp.end_time),
                                   inp.per_diem, inp.site_bonus)
         IN  BulkSaves(r.rows, r.last_id, IF r.ret THEN count + 1 ELSE count, now,
                       raised, AddDays(curr, 1), bulk_end_date, inp)

\* the days from the start date through the end date
BulkDays(range) == ToOrdinal(range.bulk_end_date) - ToOrdinal(range.bulk_start_date) + 1

\* bulk_add_shifts(state)
BulkAddShifts ==
    /\ pc = "gui"
    /\ \E range \in BulkRanges, inp \in ShiftInputs, raised \in BOOLEAN :
        IF DateLt(range.bulk_end_date, range.bulk_start_date) THEN
            /\ bulk_shift_message' = <<"End date must be after start date">>
            /\ last_op' = Ran("bulk_add_shifts", [input |-> <<range, inp>>])
            /\ UNCHANGED <<db, seq_id, saved_shifts, summaries>>
        ELSE
            /\ Len(db) + BulkDays(range) <= MaxShifts
            /\ seq_id + BulkDays(range) <= MaxId
            /\ \E r \in {BulkSaves(db, seq_id, 0, clock, raised, range.bulk_start_date,
                                   range.bulk_end_date, inp)} :
               \E today \in Todays :
               \E shown \in get_saved_shifts(r.rows, raised),
                  data \in Analyses(r.rows, raised, today) :
               \E upd \in {update_pay_calculations(data, DefaultBaseWeekly,
                                                    DefaultSiteBonusDay, DefaultTaxRate)} :
                   /\ db' = r.rows
                   /\ seq_id' = r.last_id
                   /\ saved_shifts' = shown
                   /\ IF upd.raised
                      THEN UNCHANGED <<summaries, bulk_shift_message>>
                      ELSE /\ summaries' = <<upd>>
                           /\ bulk_shift_message' =
                                  <<"Bulk added shifts: ", r.count,
                                    range.bulk_start_date, range.bulk_end_date>>
                   /\ last_op' = Ran("bulk_add_shifts",
                                     [input |-> <<range, inp>>, called |-> TRUE,
                                      raised |-> raised, count |-> r.count,
                                      listed |-> ~raised, updated |-> ~upd.raised])
    /\ UNCHANGED <<clock, message>>

\* a second passes
Tick ==
    /\ clock < MaxClock
    /\ clock' = clock + 1
    /\ UNCHANGED <<db, seq_id, saved_shifts, message, summaries, last_op>>

(***************************************************************************)
(* SpecAnalyze: analyze_timesheet_by_periods applied to drawn tables       *)
(***************************************************************************)
\* how many rows the drawn tables hold at most
MaxAnalyzeRows == 2

\* shift days around the ends and the middle of the periods that hold AnalyzeTodays
AnalyzeDays ==
    { <<2025, 8, 9>>, <<2025, 8, 10>>, <<2025, 8, 16>>, <<2025, 8, 17>>,
      <<2025, 8, 23>>, <<2025, 8, 24>> }

\* a day of the first predefined period, one of the second, one before the table
AnalyzeTodays == { <<2025, 8, 20>>, <<2025, 9, 2>>, <<2025, 8, 5>> }

AnalyzeShifts ==
    { [selected_day |-> d, start_time |-> FmtHM(8, 0), end_time |-> FmtHM(17, 0),
       per_diem |-> "None", site_bonus |-> FALSE] : d \in AnalyzeDays }
    \cup
    { [selected_day |-> d, start_time |-> FmtHM(22, 0), end_time |-> FmtHM(6, 0),
       per_diem |-> "Lunch + Dinner", site_bonus |-> TRUE] : d \in AnalyzeDays }

\* the table after the shifts of `shifts` were saved in turn, all in one second
TableOf(shifts) ==
    [i \in 1..Len(shifts) |->
        NewRow(i - 1, 0, shifts[i].selected_day, shifts[i].start_time,
               shifts[i].end_time, shifts[i].per_diem, shifts[i].site_bonus)]

AnalyzeInputs ==
    {[fn |-> "analyze_timesheet_by_periods", rows |-> TableOf(sh), today |-> t] :
        sh \in UNION {[1..n -> AnalyzeShifts] : n \in 0..MaxAnalyzeRows},
        t \in AnalyzeTodays}

AnalyzeInit == calc_in \in AnalyzeInputs /\ calc_out = <<>>

CallAnalyze ==
    /\ calc_in.fn = "analyze_timesheet_by_periods"
    /\ calc_out = <<>>
    /\ \E data \in Analyses(calc_in.rows, FALSE, calc_in.today) : calc_out' = <<data>>
    /\ UNCHANGED calc_in

\* SpecUpdate inputs: the table update_pay_calculations finds, the day it runs
\* and the slider's tax rate in percent
UpdateInputs ==
    {[fn |-> "update_pay_calculations", rows |-> TableOf(sh), today |-> t, tax_rate |-> p] :
        sh \in UNION {[1..n -> AnalyzeShifts] : n \in 0..MaxAnalyzeRows},
        t \in AnalyzeTodays, p \in TaxRatePercents}

UpdateInit == calc_in \in UpdateInputs /\ calc_out = <<>>

\* update_pay_calculations(state): calc_out keeps what it assigned to state and
\* the analysis it worked from (its local `data`)
CallUpdatePayCalculations ==
    /\ calc_in.fn = "update_pay_calculations"
    /\ calc_out = <<>>
    /\ \E raised \in BOOLEAN :
        \E data \in Analyses(calc_in.rows, raised, calc_in.today) :
            \E upd \in {update_pay_calculations(data, DefaultBaseWeekly,
                                                 DefaultSiteBonusDay, calc_in.tax_rate)} :
                calc_out' = <<upd, data>>
    /\ UNCHANGED calc_in

(***************************************************************************)
(* Startup: check_database_structure and the main block                    *)
(***************************************************************************)
\* how many rows the table found at startup holds at most
MaxStartRows == 2

\* the columns the check looks for
CheckedColumns == {"date", "created_at"}

\* the tables the file may hold at startup: none, the current schema, a table
\* without created_at, one without date, one without per_diem and site_bonus,
\* and one with id, date and created_at only
StartTables ==
    { <<>>, <<SchemaColumns>>,
      <<SchemaColumns \ {"created_at"}>>,
      <<SchemaColumns \ {"date"}>>,
      <<SchemaColumns \ {"per_diem", "site_bonus"}>>,
      <<{"id", "date", "created_at"}>> }

StartShifts ==
    { [selected_day |-> <<2025, 8, 12>>, start_time |-> FmtHM(8, 0),
       end_time |-> FmtHM(17, 0), per_diem |-> "None", site_bonus |-> FALSE],
      [selected_day |-> <<2025, 8, 19>>, start_time |-> FmtHM(22, 0),
       end_time |-> FmtHM(6, 0), per_diem |-> "Lunch + Dinner", site_bonus |-> TRUE] }

\* a row of a table that has the columns cols
Project(r, cols) == [c \in cols \cap DOMAIN r |-> r[c]]

\* the rows a table with the columns cols holds after the shifts were saved
StartRows(shifts, cols) ==
    [i \in 1..Len(shifts) |-> Project(TableOf(shifts)[i], cols)]

StartInputs ==
    {[fn |-> "check_database_structure", table |-> t,
      rows |-> IF t = <<>> THEN <<>> ELSE StartRows(sh, t[1])] :
        t \in StartTables,
        sh \in UNION {[1..n -> StartShifts] : n \in 0..MaxStartRows}}

\* where the statements of check_database_structure may raise: nowhere, before
\* the DROP, after the DROP took effect, after the CREATE took effect
CheckFaults == {"none", "before_drop", "after_drop", "after_create"}

\* check_database_structure: the table, its rows and the AUTOINCREMENT mark
\* afterwards, and the value returned
check_database_structure(table, rows, last_id, fault) ==
    LET missing_columns == IF table = <<>> THEN {} ELSE CheckedColumns \ table[1]
        dropped == table # <<>> /\ missing_columns # {}
        after_drop == IF dropped
                      THEN [table |-> <<>>, rows |-> <<>>, last_id |-> 0]
                      ELSE [table |-> table, rows |-> rows, last_id |-> last_id]
        after_create == IF after_drop.table = <<>>
                        THEN [table |-> <<SchemaColumns>>, rows |-> <<>>, last_id |-> 0]
                        ELSE after_drop
    IN  CASE fault = "before_drop" ->
                [table |-> table, rows |-> rows, last_id |-> last_id, ret |-> FALSE]
          [] fault = "after_drop" ->
                [table |-> after_drop.table, rows |-> after_drop.rows,
                 last_id |-> after_drop.last_id, ret |-> FALSE]
          [] fault = "after_create" ->
                [table |-> after_create.table, rows |-> after_create.rows,
                 last_id |-> after_create.last_id, ret |-> FALSE]
          [] OTHER ->
                [table |-> after_create.table, rows |-> after_create.rows,
                 last_id |-> after_create.last_id, ret |-> TRUE]

StartInit ==
    /\ calc_in \in StartInputs
    /\ calc_out = <<>>
    /\ shifts_table = calc_in.table
    /\ db = calc_in.rows
    /\ seq_id = Len(calc_in.rows)
    /\ pc = "main"
    /\ clock = 0
    /\ saved_shifts = <<>>
    /\ message = <<"Ready to enter shift data">>
    /\ bulk_shift_message = <<>>
    /\ summaries = <<>>
    /\ last_op = NoOp

\* __main__: if not check_database_structure(): ...
CheckDatabaseStructure ==
    /\ pc = "main"
    /\ \E fault \in CheckFaults :
        \E r \in {check_database_structure(shifts_table, db, seq_id, fault)} :
            /\ shifts_table' = r.table
            /\ db' = r.rows
            /\ seq_id' = r.last_id
            /\ calc_out' = <<r.ret>>
            /\ pc' = IF r.ret THEN "checked" ELSE "failed"
    /\ UNCHANGED <<clock, saved_shifts, message, bulk_shift_message, summaries,
                   last_op, calc_in>>

\* __main__: print("Database setup failed!"); exit(1)
Exit ==
    /\ pc = "failed"
    /\ pc' = "exited"
    /\ UNCHANGED <<db, seq_id, clock, saved_shifts, message, bulk_shift_message,
                   summaries, last_op, shifts_table, calc_in, calc_out>>

\* __main__: gui = Gui(pages=pages); gui.run(..., on_init=on_init)
GuiRun ==
    /\ pc = "checked"
    /\ pc' = "gui"
    /\ UNCHANGED <<db, seq_id, clock, saved_shifts, message, bulk_shift_message,
                   summaries, last_op, shifts_table, calc_in, calc_out>>

(***************************************************************************)
(* Specifications                                                          *)
(***************************************************************************)
\* Spec: the store driven by the handlers that save, delete and list single
\* shifts, as seconds pass
Init == StoreInit /\ PeriodIdle /\ CalcIdle

Next ==
    \/ OnInit /\ UNCHANGED <<period_vars, calc_vars, boot_vars, bulk_shift_message>>
    \/ SaveShift /\ UNCHANGED <<period_vars, calc_vars, boot_vars, bulk_shift_message>>
    \/ DeleteSelectedShift /\ UNCHANGED <<period_vars, calc_vars, boot_vars, bulk_shift_message>>
    \/ ClearAllShifts /\ UNCHANGED <<period_vars, calc_vars, boot_vars, bulk_shift_message>>
    \/ Tick /\ UNCHANGED <<period_vars, calc_vars, boot_vars, bulk_shift_message>>

Spec == Init /\ [][Next]_vars

\* SpecPeriod: the period lookup on its own
InitPeriod == PeriodInit /\ StoreInit /\ CalcIdle

NextPeriod ==
    CallGetPayPeriod /\ UNCHANGED <<store_vars, calc_vars>>

SpecPeriod == InitPeriod /\ [][NextPeriod]_vars

\* SpecHours: the hours of a shift on their own
InitHours == HoursInit /\ StoreInit /\ PeriodIdle

NextHours ==
    CallCalculateHours /\ UNCHANGED <<store_vars, period_vars>>

SpecHours == InitHours /\ [][NextHours]_vars

\* SpecPay: the weekly and the period pay on their own
InitPay == PayInit /\ StoreInit /\ PeriodIdle

NextPay ==
    \/ CallCalcWeeklyPay /\ UNCHANGED <<store_vars, period_vars>>
    \/ CallCalcPayPeriod /\ UNCHANGED <<store_vars, period_vars>>

SpecPay == InitPay /\ [][NextPay]_vars

\* SpecAnalyze: the weekly split on its own
InitAnalyze == AnalyzeInit /\ StoreInit /\ PeriodIdle

NextAnalyze ==
    CallAnalyze /\ UNCHANGED <<store_vars, period_vars>>

SpecAnalyze == InitAnalyze /\ [][NextAnalyze]_vars

\* SpecPeriods: the current and the previous period of every day around the table
InitPeriods == PeriodsInit /\ StoreInit /\ PeriodIdle

NextPeriods ==
    CallGetCurrentAndPrevious /\ UNCHANGED <<store_vars, period_vars>>

SpecPeriods == InitPeriods /\ [][NextPeriods]_vars

\* SpecStartup: the main block on the tables the file may hold, up to the
\* first handler
InitStartup == StartInit /\ PeriodIdle

NextStartup ==
    \/ CheckDatabaseStructure /\ UNCHANGED period_vars
    \/ Exit /\ UNCHANGED period_vars
    \/ GuiRun /\ UNCHANGED period_vars
    \/ OnInit /\ UNCHANGED <<period_vars, calc_vars, boot_vars, bulk_shift_message>>

SpecStartup == InitStartup /\ [][NextStartup]_vars

\* SpecForms: the handlers that take what the user typed (the shift form, the
\* Shift ID field, the bulk dates)
NextForms ==
    \/ SaveShift /\ UNCHANGED <<period_vars, calc_vars, boot_vars, bulk_shift_message>>
    \/ DeleteSelectedShift
           /\ UNCHANGED <<period_vars, calc_vars, boot_vars, bulk_shift_message>>
    \/ BulkAddShifts /\ UNCHANGED <<period_vars, calc_vars, boot_vars>>

SpecForms == Init /\ [][NextForms]_vars

\* SpecUpdate: update_pay_calculations on its own
InitUpdate == UpdateInit /\ StoreInit /\ PeriodIdle

NextUpdate ==
    CallUpdatePayCalculations /\ UNCHANGED <<store_vars, period_vars>>

SpecUpdate == InitUpdate /\ [][NextUpdate]_vars

\* SpecProjection: the monthly projections on their own
InitProjection == ProjectionInit /\ StoreInit /\ PeriodIdle

NextProjection ==
    CallCalculateMonthlyProjections /\ UNCHANGED <<store_vars, period_vars>>

SpecProjection == InitProjection /\ [][NextProjection]_vars

(***************************************************************************)
(* Properties                                                              *)
(***************************************************************************)
\* the day number of a date, for the properties below
Day(dt) == ToOrdinal(dt)

\* C1: a date inside a predefined period's inclusive range is resolved to exactly
\* that period; every date from Aug 10 through Dec 27, 2025 lies in exactly one
\* predefined period; a date before Aug 10 or after Dec 27, 2025 is resolved to a
\* synthesized period that starts on the date and ends 13 days later.
C1_PeriodLookup ==
    period_ret # <<>> =>
        LET d == Day(target_date)
            p == period_ret[1]
            holding == {i \in 1..Len(PAY_PERIODS) :
                            Day(PAY_PERIODS[i].start) <= d /\ d <= Day(PAY_PERIODS[i].end)}
        IN  /\ \A i \in holding : p = PAY_PERIODS[i]
            /\ (Day(<<2025, 8, 10>>) <= d /\ d <= Day(<<2025, 12, 27>>))
                   => Cardinality(holding) = 1
            /\ (d < Day(<<2025, 8, 10>>) \/ d > Day(<<2025, 12, 27>>))
                   => /\ p.start = target_date
                      /\ Day(p.end) = d + 13
                      /\ p \notin {PAY_PERIODS[i] : i \in 1..Len(PAY_PERIODS)}

\* C1 witness: the last day of the first period was looked up and resolved to it
C1_Witness ==
    /\ target_date = <<2025, 8, 23>>
    /\ period_ret = <<PAY_PERIODS[1]>>

\* the stored rows
Stored(rows) == {rows[i] : i \in 1..Len(rows)}

\* some stored row has this id
HasId(rows, id) == \E r \in Stored(rows) : r.id = id

\* the stored row a listed entry shows
RowOf(entry) == CHOOSE r \in Stored(db) : r.id = entry.id

\* the list shows every stored row exactly once, with the columns of the query
ListsStore ==
    /\ Len(saved_shifts) = Len(db)
    /\ \A r \in Stored(db) :
           Cardinality({i \in 1..Len(saved_shifts) : saved_shifts[i] = Shown(r)}) = 1
    /\ \A i, j \in 1..Len(db) : i # j => db[i].id # db[j].id

\* C2: after any sequence of saves, deletes and clear-alls the list get_saved_shifts
\* returned holds every stored shift exactly once, later dates first, among equal
\* dates later creation timestamps first, and among equal dates and timestamps
\* the shift inserted later (the greater id) first.
C2_ListingOrder ==
    last_op.listed =>
        /\ ListsStore
        /\ \A i, j \in 1..Len(saved_shifts) :
               i < j =>
                   LET a == RowOf(saved_shifts[i])
                       b == RowOf(saved_shifts[j])
                   IN  \/ Day(a.date) > Day(b.date)
                       \/ Day(a.date) = Day(b.date) /\ a.created_at > b.created_at
                       \/ /\ Day(a.date) = Day(b.date)
                          /\ a.created_at = b.created_at
                          /\ a.id > b.id

\* C2 witness: two shifts saved for the same date in the same second are listed
\* with the one inserted first (id 1) ahead of the one inserted later (id 2)
C2_Witness ==
    /\ last_op.listed
    /\ Len(db) = 2
    /\ db[1].date = db[2].date
    /\ db[1].created_at = db[2].created_at
    /\ Len(saved_shifts) = 2
    /\ saved_shifts[1].id = 1
    /\ saved_shifts[2].id = 2

\* the part of C2 the query does order: every stored shift exactly once, later
\* dates first and, among equal dates, later creation timestamps first
ListingOrderedUpToTies ==
    last_op.listed =>
        /\ ListsStore
        /\ \A i, j \in 1..Len(saved_shifts) :
               i < j =>
                   LET a == RowOf(saved_shifts[i])
                       b == RowOf(saved_shifts[j])
                   IN  \/ Day(a.date) > Day(b.date)
                       \/ Day(a.date) = Day(b.date) /\ a.created_at >= b.created_at

\* the last handler was save_shift and its save succeeded
JustSaved == last_op.op = "save_shift" /\ last_op.ret

\* where the shift just saved stands in the list
NewAt == {i \in 1..Len(saved_shifts) : saved_shifts[i].id = last_op.new_id}

Called(op) == clock' = clock /\ last_op'.op = op /\ last_op'.called

\* C4: delete_shift_from_db(id), its statement not raising, returns true exactly
\* when a row with that id was stored; afterwards no row has that id and every
\* other row is stored as before; for an id that is not stored it returns false,
\* the store is as it was and the handler reports the id as not found.  When the
\* statement raises, it returns false and the store is as it was.
C4_DeleteById ==
    [][Called("delete_selected_shift") =>
          LET id == last_op'.shift_id
          IN  IF last_op'.raised
              THEN ~last_op'.ret /\ db' = db
              ELSE /\ last_op'.ret <=> HasId(db, id)
                   /\ ~HasId(db', id)
                   /\ db' = SelectSeq(db, LAMBDA r : r.id # id)
                   /\ Stored(db') = Stored(db) \ {r \in Stored(db) : r.id = id}
                   /\ ~HasId(db, id) =>
                          /\ db' = db
                          /\ message' = <<"Shift ID not found: ", id>>
                          /\ UNCHANGED <<saved_shifts, summaries>>]_vars

\* C4 witness: id 1 was deleted from a store of two shifts and id 2 is still there
C4_Witness ==
    /\ last_op.op = "delete_selected_shift"
    /\ last_op.called /\ ~last_op.raised
    /\ last_op.shift_id = 1
    /\ last_op.ret
    /\ Len(db) = 1
    /\ db[1].id = 2

\* C5: delete_all_shifts, its statement not raising, returns the number of rows
\* that were stored and leaves the store empty; on an empty store it returns 0
\* and clear_all_shifts reports that there were no shifts to delete.  When the
\* statement raises, it returns 0 and the store is as it was.
C5_DeleteAll ==
    [][Called("clear_all_shifts") =>
          IF last_op'.raised
          THEN last_op'.count = 0 /\ db' = db
          ELSE /\ last_op'.count = Len(db)
               /\ db' = <<>>
               /\ db = <<>> =>
                      /\ last_op'.count = 0
                      /\ message' = <<"No shifts to delete">>
                      /\ UNCHANGED <<saved_shifts, summaries>>]_vars

\* C5 witness: clear-all removed two shifts; the empty store is C5_WitnessEmpty
C5_Witness ==
    /\ last_op.op = "clear_all_shifts"
    /\ ~last_op.raised
    /\ last_op.count = 2
    /\ db = <<>>
    /\ saved_shifts = <<>>

\* clear-all ran on an empty store
C5_WitnessEmpty ==
    /\ last_op.op = "clear_all_shifts"
    /\ ~last_op.raised
    /\ last_op.count = 0
    /\ seq_id > 0
    /\ message = <<"No shifts to delete">>

\* C6: when the INSERT of save_shift_to_db raises, no row is added and no stored
\* row changes, the function returns false, and save_shift sets the failure
\* message and leaves the shift list and the pay summaries as they were.
C6_FailedSave ==
    [][(Called("save_shift") /\ last_op'.raised) =>
          /\ db' = db
          /\ ~last_op'.ret
          /\ message' = <<"Failed to save shift">>
          /\ saved_shifts' = saved_shifts
          /\ summaries' = summaries
          /\ ~last_op'.listed /\ ~last_op'.updated]_vars

\* C6 witness: a save failed on a store that holds a shift, and the list and the
\* summaries still show that shift alone
C6_Witness ==
    /\ last_op.op = "save_shift"
    /\ last_op.raised
    /\ ~last_op.ret
    /\ message = <<"Failed to save shift">>
    /\ Len(db) = 1
    /\ Len(saved_shifts) = 1
    /\ summaries # <<>>

\* C7: for well-formed times the result is (end - start) hours when end > start
\* and (end + 24h - start) hours when end <= start, so it is above 0 and at most
\* 24; for a malformed time text the result is 0.
C7_HoursWorked ==
    (calc_in.fn = "calculate_hours_from_timesheet" /\ calc_out # <<>>) =>
        LET st == calc_in.start_min
            en == calc_in.end_min
            h == calc_out[1]
        IN  /\ (st >= 0 /\ en > st) => h[1] * 60 = (en - st) * h[2]
            /\ (st >= 0 /\ en >= 0 /\ en <= st) => h[1] * 60 = (en + 24 * 60 - st) * h[2]
            /\ (st >= 0 /\ en >= 0) => (h[1] > 0 /\ h[1] <= 24 * h[2])
            /\ (st < 0 \/ en < 0) => h = <<0, 1>>
            /\ h[2] > 0

\* C7 witness: 22:00 to 06:00 came out as 8 hours
C7_Witness ==
    /\ calc_in.fn = "calculate_hours_from_timesheet"
    /\ calc_in.start_time = <<"2", "2", ":", "0", "0">>
    /\ calc_in.end_time = <<"0", "6", ":", "0", "0">>
    /\ calc_out = << <<8, 1>> >>

\* the stipend of each per-diem category, 0 for any other text
StipendOf(choice) ==
    CASE choice = "Breakfast Only" -> 15
      [] choice = "Breakfast + Lunch" -> 20
      [] choice = "Breakfast + Lunch + Dinner" -> 54
      [] choice = "Lunch + Dinner" -> 39
      [] choice = "Dinner Only" -> 23
      [] OTHER -> 0

RECURSIVE StipendSum(_)
StipendSum(choices) ==
    IF choices = <<>> THEN 0 ELSE StipendOf(Head(choices)) + StipendSum(Tail(choices))

\* what one week of h hours is paid above its base and bonus compensation comp:
\* nothing up to 40 hours, (h - 40) * 0.5 * comp / h beyond
WeekOvertime(h, comp) ==
    IF h[1] <= 40 * h[2] THEN <<0, 1>>
    ELSE Norm((h[1] - 40 * h[2]) * comp, 2 * h[1])

\* C8: one week's overtime pay is 0 for hours <= 40 and
\* (hours - 40) * 0.5 * (base_weekly + bonus_per_day * bonus_days) / hours above 40;
\* taxable gross is base_weekly + bonus_per_day * bonus_days + overtime pay; the
\* per-diem total is the sum of the stipends of the choices, unknown ones adding 0.
C8_WeeklyPay ==
    (calc_in.fn = "calc_weekly_pay" /\ calc_out # <<>>) =>
        LET comp == calc_in.base_weekly + calc_in.site_bonus_day * calc_in.site_bonus_days
            w == calc_out[1]
        IN  /\ w.ot_pay = WeekOvertime(calc_in.hours, comp)
            /\ w.taxable_gross = RAdd(RInt(comp), WeekOvertime(calc_in.hours, comp))
            /\ w.per_diem_total = RInt(StipendSum(calc_in.per_diem_choices))

\* C8 witness: 45 hours with one bonus day at 700 a week and 45 a day gave
\* overtime 745/18 (41.39) and taxable gross 14155/18 (786.39)
C8_Witness ==
    /\ calc_in.fn = "calc_weekly_pay"
    /\ calc_in.hours = <<45, 1>>
    /\ calc_in.site_bonus_days = 1
    /\ calc_out # <<>>
    /\ calc_out[1].ot_pay = <<745, 18>>
    /\ calc_out[1].taxable_gross = <<14155, 18>>

\* C9: the period's taxable gross is the sum of the two weeks' gross, each week's
\* overtime depending on that week's hours alone; its per-diem total is the sum of
\* the two weeks' per-diem totals; after_tax = (G1 + G2) * (1 - t) + (P1 + P2).
C9_PeriodPay ==
    (calc_in.fn = "calc_pay_period" /\ calc_out # <<>>) =>
        LET c1 == calc_in.base_weekly
                  + calc_in.site_bonus_day * calc_in.week1_site_bonus_days
            c2 == calc_in.base_weekly
                  + calc_in.site_bonus_day * calc_in.week2_site_bonus_days
            G1 == RAdd(RInt(c1), WeekOvertime(calc_in.week1_hours, c1))
            G2 == RAdd(RInt(c2), WeekOvertime(calc_in.week2_hours, c2))
            P == StipendSum(calc_in.week1_per_diem) + StipendSum(calc_in.week2_per_diem)
            out == calc_out[1]
        IN  /\ out.taxable_gross = RAdd(G1, G2)
            /\ out.per_diem = RInt(P)
            /\ out.after_tax = RAdd(RMul(RAdd(G1, G2), RSub(RInt(1), calc_in.tax_rate)),
                                    RInt(P))

\* C9 witness: 45 hours in week 1 and 8 in week 2 (53 in all, below 80) were paid
\* week 1's overtime 350/9: gross 700 + 350/9 + 700 = 12950/9
C9_Witness ==
    /\ calc_in.fn = "calc_pay_period"
    /\ calc_in.week1_hours = <<45, 1>>
    /\ calc_in.week2_hours = <<8, 1>>
    /\ calc_in.week1_site_bonus_days = 0
    /\ calc_in.week2_site_bonus_days = 0
    /\ calc_in.tax_rate = <<3, 20>>
    /\ calc_out # <<>>
    /\ calc_out[1].taxable_gross = <<12950, 9>>

\* the rows of the table `rows` whose day number is from lo through hi
RowsFromTo(rows, lo, hi) ==
    SelectSeq(rows, LAMBDA r : lo <= Day(r.date) /\ Day(r.date) <= hi)

\* the minutes a row's shift lasts (its times are well formed)
ShiftMinutes(r) ==
    LET st == strptime(r.start_time)
        en == strptime(r.end_time)
    IN  IF en > st THEN en - st ELSE en + 24 * 60 - st

RECURSIVE MinutesSum(_)
MinutesSum(rows) ==
    IF rows = <<>> THEN 0 ELSE ShiftMinutes(Head(rows)) + MinutesSum(Tail(rows))

\* the two lists hold the same texts the same number of times
SameChoices(a, b) ==
    /\ Len(a) = Len(b)
    /\ \A i \in 1..Len(b) : CountOf(a, b[i]) = CountOf(b, b[i])

\* the totals reported for `period` split the period's rows of `rows` in two:
\* days 1-7 and days 8-14
SplitsPeriod(out, period, rows) ==
    LET s == Day(period.start)
        w1 == RowsFromTo(rows, s, s + 6)
        w2 == RowsFromTo(rows, s + 7, s + 13)
        all == RowsFromTo(rows, s, Day(period.end))
    IN  /\ Len(w1) + Len(w2) = Len(all)
        /\ out.week1_hours = Norm(MinutesSum(w1), 60)
        /\ out.week2_hours = Norm(MinutesSum(w2), 60)
        /\ out.hours = Norm(MinutesSum(all), 60)
        /\ out.hours = RAdd(out.week1_hours, out.week2_hours)
        /\ out.days = Len(all)
        /\ Len(out.week1_per_diem) + Len(out.week2_per_diem) = out.days
        /\ SameChoices(out.week1_per_diem, [i \in 1..Len(w1) |-> w1[i].per_diem])
        /\ SameChoices(out.week2_per_diem, [i \in 1..Len(w2) |-> w2[i].per_diem])
        /\ out.week1_site_bonus_days = Len(SelectSeq(w1, LAMBDA r : r.site_bonus = 1))
        /\ out.week2_site_bonus_days = Len(SelectSeq(w2, LAMBDA r : r.site_bonus = 1))
        /\ out.site_bonus_days = Len(SelectSeq(all, LAMBDA r : r.site_bonus = 1))
        /\ out.site_bonus_days = out.week1_site_bonus_days + out.week2_site_bonus_days

C11_CurrentAndPrevious ==
    (calc_in.fn = "get_current_and_previous_periods" /\ calc_out # <<>>) =>
        LET cur == calc_out[1].current
            prev == calc_out[1].previous
            s == Day(cur.start)
            ending == {i \in 1..Len(PAY_PERIODS) : Day(PAY_PERIODS[i].end) < s}
        IN  /\ cur = get_pay_period_for_date(calc_in.today)
            /\ Day(cur.start) <= Day(calc_in.today) /\ Day(calc_in.today) <= Day(cur.end)
            /\ ending # {} =>
                   \E i \in ending :
                       /\ prev = PAY_PERIODS[i]
                       /\ \A j \in ending : Day(PAY_PERIODS[j].end) <= Day(PAY_PERIODS[i].end)
            /\ ending = {} =>
                   /\ Day(prev.end) = s - 1
                   /\ Day(prev.start) = Day(prev.end) - 13
                   /\ prev \notin {PAY_PERIODS[i] : i \in 1..Len(PAY_PERIODS)}
            /\ Day(prev.start) <= Day(prev.end)
            /\ Day(prev.end) < s

\* C11 witness: on Sep 10 the current period is the third of the table and the
\* previous one the second, not the first
C11_Witness ==
    /\ calc_in.fn = "get_current_and_previous_periods"
    /\ calc_in.today = <<2025, 9, 10>>
    /\ calc_out # <<>>
    /\ calc_out[1].current = PAY_PERIODS[3]
    /\ calc_out[1].previous = PAY_PERIODS[2]

\* today after the table: current is synthesized and previous is the last period
C11_WitnessAfterTable ==
    /\ calc_in.fn = "get_current_and_previous_periods"
    /\ calc_in.today = <<2026, 1, 5>>
    /\ calc_out # <<>>
    /\ calc_out[1].current.start = <<2026, 1, 5>>
    /\ calc_out[1].previous = PAY_PERIODS[10]

\* the startup check returned true
CheckPassed == pc \in {"checked", "gui"}

\* C12: after every startup check that succeeds the table shifts exists with all
\* seven columns of the schema: a table that lacked one was dropped and created
\* anew; a table that had them all keeps its records; and when the check fails
\* the process exits and no handler runs.
C12_StartupCheck ==
    calc_in.fn = "check_database_structure" =>
        /\ CheckPassed => shifts_table = <<SchemaColumns>>
        /\ (CheckPassed /\ calc_in.table \notin {<<>>, <<SchemaColumns>>}) => db = <<>>
        /\ (CheckPassed /\ calc_in.table = <<SchemaColumns>>) => db = calc_in.rows
        /\ pc = "exited" => (calc_out = <<FALSE>> /\ last_op = NoOp)
        /\ last_op # NoOp => (pc = "gui" /\ calc_out = <<TRUE>>)

\* C12 witness: the check succeeded on a table without the columns per_diem and
\* site_bonus and left it as it was, rows included
C12_Witness ==
    /\ calc_in.fn = "check_database_structure"
    /\ CheckPassed
    /\ shifts_table = <<SchemaColumns \ {"per_diem", "site_bonus"}>>
    /\ Len(db) = 2
    /\ db = calc_in.rows

\* the part of C12 the check does give: after a successful check the table
\* exists with the columns date and created_at; a table that lacked one of the
\* two was dropped and created anew with all seven; a table that had both is as
\* it was, rows included; when the check fails the process exits and no handler
\* runs
StartupCheckedColumns ==
    calc_in.fn = "check_database_structure" =>
        /\ CheckPassed =>
               /\ shifts_table # <<>>
               /\ CheckedColumns \subseteq shifts_table[1]
               /\ IF calc_in.table # <<>> /\ CheckedColumns \subseteq calc_in.table[1]
                  THEN shifts_table = calc_in.table /\ db = calc_in.rows
                  ELSE shifts_table = <<SchemaColumns>> /\ db = <<>>
        /\ pc = "exited" => (calc_out = <<FALSE>> /\ last_op = NoOp)
        /\ last_op # NoOp => (pc = "gui" /\ calc_out = <<TRUE>>)

\* the text is empty or holds blanks only
Blank(text) == \A i \in 1..Len(text) : text[i] = " "

\* the text is a run of digits with blanks around it
Numeric(text) ==
    \E a, b \in 1..Len(text) :
        /\ a <= b
        /\ \A i \in 1..Len(text) :
               IF a <= i /\ i <= b
               THEN text[i] \in {"0", "1", "2", "3", "4", "5", "6", "7", "8", "9"}
               ELSE text[i] = " "

\* the message reports an error: it is set and is none of the success messages
IsError(msg) ==
    /\ msg # <<>>
    /\ msg[1] \notin {"Ready to enter shift data", "Ready - shifts loaded: ",
                      "Shift saved and pay updated for ", "Shift ID deleted successfully: ",
                      "All shifts deleted: ", "Bulk added shifts: "}

\* the handler that ran in this step was `op`
Handled(op) == clock' = clock /\ last_op'.op = op

\* a delete request with an empty or non-numeric Shift ID ran in this step
BadDeleteRequest ==
    /\ Handled("delete_selected_shift")
    /\ Blank(last_op'.input) \/ ~Numeric(last_op'.input)

\* a save request with an empty start time or end time ran in this step
BadSaveRequest ==
    /\ Handled("save_shift")
    /\ Blank(last_op'.input.start_time) \/ Blank(last_op'.input.end_time)

\* a bulk entry whose end date is before its start date ran in this step
BadBulkRequest ==
    /\ Handled("bulk_add_shifts")
    /\ Day(last_op'.input[1].bulk_end_date) < Day(last_op'.input[1].bulk_start_date)

\* C13: a delete request with an empty or non-numeric Shift ID, a save request
\* with an empty start time or end time, and a bulk entry whose end date is before
\* its start date are each rejected before the store is called: the stored shifts
\* are as they were and the handler's message reports an error.
C13_ValidationFirst ==
    [][/\ BadDeleteRequest => (~last_op'.called /\ db' = db /\ IsError(message'))
       /\ BadSaveRequest => (~last_op'.called /\ db' = db /\ IsError(message'))
       /\ BadBulkRequest =>
              (~last_op'.called /\ db' = db /\ IsError(bulk_shift_message'))]_vars

\* C13 witness: Save Shift with an empty start time stored the shift and
\* reported success
C13_Witness ==
    /\ last_op.op = "save_shift"
    /\ last_op.input.start_time = <<>>
    /\ last_op.called /\ last_op.ret
    /\ Len(db) = 1
    /\ db[1].start_time = <<>>
    /\ message = <<"Shift saved and pay updated for ", <<2025, 7, 30>>>>

\* the part of C13 the handlers do give: the delete request and the bulk entry
\* are rejected before the store is called
ValidationOfDeleteAndBulk ==
    [][/\ BadDeleteRequest => (~last_op'.called /\ db' = db /\ IsError(message'))
       /\ BadBulkRequest =>
              (~last_op'.called /\ db' = db /\ IsError(bulk_shift_message'))]_vars

\* a bulk entry with its end date before its start date was rejected while a
\* shift was stored
BulkRejectedReached ==
    /\ last_op.op = "bulk_add_shifts"
    /\ ~last_op.called
    /\ bulk_shift_message = <<"End date must be after start date">>
    /\ Len(db) = 1

\* the days of the three projected months, in the order of the rows
MonthDays == <<5, 20, 28>>

\* the hours of a month of n days at the sample's hours per day
MonthHours(sample, n) == Norm(sample.hours[1] * n, sample.hours[2] * sample.days)

\* the bonus days of a month of n days: the sample's rate times n, rounded down
MonthBonusDays(sample, n) == (sample.site_bonus_days * n) \div sample.days

\* what a month of h hours is paid above its base and bonus compensation comp:
\* nothing up to 160 hours, (h - 160) * 0.5 * comp / h beyond
MonthOvertime(h, comp) ==
    IF h[1] <= 160 * h[2] THEN <<0, 1>>
    ELSE Norm((h[1] - 160 * h[2]) * comp, 2 * h[1])

\* the choice met most often in a list, the one met first among equals, "None"
\* for the empty list
ModeOf(choices) ==
    IF choices = <<>> THEN "None"
    ELSE LET Cnt(x) == Cardinality({i \in DOMAIN choices : choices[i] = x})
             First(x) == CHOOSE i \in DOMAIN choices :
                            /\ choices[i] = x
                            /\ \A j \in 1..(i - 1) : choices[j] # x
             best == CHOOSE i \in DOMAIN choices : \A j \in DOMAIN choices :
                        \/ Cnt(choices[i]) > Cnt(choices[j])
                        \/ /\ Cnt(choices[i]) = Cnt(choices[j])
                           /\ First(choices[i]) <= First(choices[j])
         IN  choices[best]

\* the take-home of a month of n days: gross less tax_rate percent of it, plus n
\* stipends of the sample's usual per-diem choice
MonthIncome(sample, n, base_weekly, site_bonus_day, tax_rate) ==
    LET comp == 4 * base_weekly + site_bonus_day * MonthBonusDays(sample, n)
        gross == RAdd(<<comp, 1>>, MonthOvertime(MonthHours(sample, n), comp))
        kept == RMul(gross, RSub(<<1, 1>>, RDiv(tax_rate, <<100, 1>>)))
    IN  RAdd(kept, <<StipendOf(ModeOf(sample.per_diem_choices)) * n, 1>>)

C14_WitnessNoData ==
    /\ calc_in.fn = "calculate_monthly_projections"
    /\ calc_in.current_data.days = 2
    /\ calc_in.current_data.hours = <<0, 1>>
    /\ calc_out = << << [Scenario |-> "No data available", Income |-> <<0, 1>>] >> >>

\* the taxable gross of a period: each week's base and bonus compensation plus
\* that week's overtime
PeriodGross(p, base_weekly, site_bonus_day) ==
    LET c1 == base_weekly + site_bonus_day * p.week1_site_bonus_days
        c2 == base_weekly + site_bonus_day * p.week2_site_bonus_days
    IN  RAdd(RAdd(<<c1, 1>>, WeekOvertime(p.week1_hours, c1)),
             RAdd(<<c2, 1>>, WeekOvertime(p.week2_hours, c2)))

\* update_pay_calculations ran to its end and projected three months
Projected ==
    /\ calc_in.fn = "update_pay_calculations"
    /\ calc_out # <<>>
    /\ ~calc_out[1].raised
    /\ Len(calc_out[1].monthly_projections) = 3

\* the period pay withholds p percent of the taxable gross
PeriodWithholds(percent) ==
    LET s == calc_out[1].current_period_summary
        gross == PeriodGross(calc_out[2].current_period, DefaultBaseWeekly,
                             DefaultSiteBonusDay)
    IN  RSub(s.after_tax, s.per_diem_total)
            = RMul(gross, RSub(<<1, 1>>, RDiv(percent, <<100, 1>>)))

\* each projected month withholds p percent of its taxable gross
ProjectionWithholds(percent) ==
    LET sample == ProjectionSample(calc_out[2].current_period)
    IN  \A k \in 1..3 :
            calc_out[1].monthly_projections[k].Income =
                MonthIncome(sample, MonthDays[k], DefaultBaseWeekly,
                            DefaultSiteBonusDay, percent)

\* C15: for a tax rate of p percent, the monthly projection produced by
\* update_pay_calculations withholds the same fraction of taxable gross as the
\* period pay calculation: each projected monthly take-home equals
\* taxable_gross * (1 - p/100) + per_diem_total.
C15_SameTaxFraction ==
    Projected =>
        /\ PeriodWithholds(<<calc_in.tax_rate, 1>>)
        /\ ProjectionWithholds(<<calc_in.tax_rate, 1>>)

\* what update_pay_calculations does: the period pay withholds p percent, the
\* projection p/100 percent (p/10000 of the taxable gross)
ProjectionTaxFraction ==
    Projected =>
        /\ PeriodWithholds(<<calc_in.tax_rate, 1>>)
        /\ ProjectionWithholds(Norm(calc_in.tax_rate, 100))

\* C15 witness: one shift of 9 hours on Aug 16, 15 percent: the current period
\* kept 1400 * 0.85 = 1190, the 5-day month kept 2800 * 0.9985 = 2795.8
C15_Witness ==
    /\ Projected
    /\ calc_in.tax_rate = 15
    /\ calc_in.today = <<2025, 8, 20>>
    /\ Len(calc_in.rows) = 1
    /\ calc_in.rows[1].date = <<2025, 8, 16>>
    /\ calc_out[1].current_period_summary.after_tax = <<1190, 1>>
    /\ calc_out[1].monthly_projections[1].Income = <<13979, 5>>

====
